---- MODULE Spec2Model ----
(***************************************************************************)
(* Conway's Game of Life on the GPU (GameOfLife.cpp, gameoflife.comp).     *)
(*                                                                         *)
(* Two RGBA32F textures hold the board: inputTexture (image unit 0, the    *)
(* current generation) and outputTexture (image unit 1, the next one).     *)
(* simulationTick() dispatches the compute shader once per cell, waits on  *)
(* a memory barrier and copies outputTexture over inputTexture.  main()    *)
(* builds the shaders, loads the initial board from an image and runs the  *)
(* frame loop; key_callback() runs inside glfwPollEvents().                *)
(*                                                                         *)
(* A texel is modelled by its x (red) channel, the only channel the shader *)
(* reads.  A float channel value v is held as the integer v * One, so that *)
(* the byte b of the image file, normalised by OpenGL to b / 255, is the   *)
(* integer b, and 1.0 is One.                                              *)
(***************************************************************************)
EXTENDS Integers, FiniteSets, Sequences, TLC

\* The board is gridWidth x gridHeight cells.  The program uses 400 x 400;
\* the model checks a board small enough to enumerate.
gridWidth == 5
gridHeight == 4

\* UNSIGNED_BYTE texel data is normalised by 255: 1.0 is held as One.
One == 255

\* At most MaxSteps single-step (T) events are delivered in one frame.
MaxSteps == 1

\* The viewport may be panned at most MaxPan steps of 0.01 from the origin.
MaxPan == 1

\* The viewport scale, in steps of 0.1, is not raised above MaxScale.
MaxScale == 10

VARIABLES
    pc,                 \* position of main(): "init", "shaders", "image",
                        \* "loop", "render", "poll", "exit"; or, when
                        \* simulationTick() is followed step by step,
                        \* "dispatch", "barrier" and "copy"
    console,            \* the diagnostics written to cerr / cout so far
    image,              \* what stbi_load returned: NotLoaded, or data and
                        \* imgWidth, imgHeight, numChannels
    renderProgram,      \* "none" | "linked" | "failed"
    computeProgram,     \* "none" | "linked" | "failed"
    inputTexture,       \* NoTexture, or [Cells -> texel]
    outputTexture,      \* NoTexture, or [Cells -> texel]
    outputWritten,      \* has a dispatch stored into outputTexture yet
    simulationIsRunning,
    currentScale,       \* in steps of 0.1
    currentXOffset,     \* in steps of 0.01
    currentYOffset,     \* in steps of 0.01
    runningAtTop,       \* simulationIsRunning as line 329 read it this frame
    ticksThisFrame,     \* calls of simulationTick() since the frame began
    stepsThisFrame,     \* T press / repeat events delivered this frame
    queued,             \* invocations of the dispatch that have not started
    inFlight,           \* invocations that have started and not yet stored
    caller,             \* where simulationTick() returns to when it is
                        \* followed invocation by invocation
    swapTextures,       \* the two buffers of the variant that exchanges the
                        \* buffers' roles instead of copying
    swapCurrent         \* which of the two holds its current generation

\* What the GPU holds of a dispatch, and the role-swapping variant.
gpu == <<queued, inFlight, caller, swapTextures, swapCurrent>>

vars == <<pc, console, image, renderProgram, computeProgram, inputTexture,
          outputTexture, outputWritten, simulationIsRunning, currentScale,
          currentXOffset, currentYOffset, runningAtTop, ticksThisFrame,
          stepsThisFrame, queued, inFlight, caller, swapTextures,
          swapCurrent>>

Cells == (0 .. gridWidth - 1) \X (0 .. gridHeight - 1)

NoTexture == << >>

NotLoaded == [data |-> "unset"]

\* The out-parameters and the result of stbi_load; data is "NULL" or "pixels".
Decoded(data, imgWidth, imgHeight, numChannels) ==
    [data |-> data, imgWidth |-> imgWidth, imgHeight |-> imgHeight,
     numChannels |-> numChannels]

\* The board whose live cells are exactly S.
GridOf(S) == [c \in Cells |-> IF c \in S THEN One ELSE 0]

Live(img) == {c \in Cells : img[c] = One}

(***************************************************************************)
(* gameoflife.comp                                                         *)
(***************************************************************************)

abs(i) == IF i < 0 THEN -i ELSE i

max(a, b) == IF a >= b THEN a ELSE b

\* int(vec4).x : the float-to-int conversion of the x channel truncates.
int(v) == v \div One

\* imageLoad on an image unit: a load outside the image is an invalid access
\* and returns zero; the sampler state of the texture (wrap mode, border
\* colour) takes no part in image loads.
imageLoadWrap(img, x, y) == img[<<x % gridWidth, y % gridHeight>>]

imageLoadBorder(img, x, y) ==
    IF x \in 0 .. gridWidth - 1 /\ y \in 0 .. gridHeight - 1
    THEN img[<<x, y>>]
    ELSE One

imageLoad(img, x, y) ==
    IF x \in 0 .. gridWidth - 1 /\ y \in 0 .. gridHeight - 1
    THEN img[<<x, y>>]
    ELSE 0

\* Lines 15-23: the eight loads, each converted to int and added.
numNeighbours(img, x, y) ==
      int(imageLoad(img, x - 1, y - 1))
    + int(imageLoad(img, x,     y - 1))
    + int(imageLoad(img, x + 1, y - 1))
    + int(imageLoad(img, x - 1, y))
    + int(imageLoad(img, x + 1, y))
    + int(imageLoad(img, x - 1, y + 1))
    + int(imageLoad(img, x,     y + 1))
    + int(imageLoad(img, x + 1, y + 1))

\* Line 30: pixel = 1.0 * (max(1 - |n - 3|, 0) + oldState.x * max(1 - |n - 2|, 0))
pixelNoBirth(oldState, n) == oldState * max(1 - abs(n - 2), 0)

pixelNoMemory(oldState, n) ==
    One * max(1 - abs(n - 3), 0) + One * max(1 - abs(n - 2), 0)

pixelWide(oldState, n) ==
    One * max(1 - abs(n - 3), 0) + oldState * max(2 - abs(n - 2), 0)

pixel(oldState, n) ==
    One * max(1 - abs(n - 3), 0) + oldState * max(1 - abs(n - 2), 0)

\* main() of the shader for the invocation at pixel_coords: the value it
\* stores at pixel_coords of img_output.
main(img_input, pixel_coords) ==
    LET x == pixel_coords[1]
        y == pixel_coords[2]
        oldState == imageLoad(img_input, x, y)
    IN  pixel(oldState, numNeighbours(img_input, x, y))

(***************************************************************************)
(* simulationTick()                                                        *)
(***************************************************************************)

\* glDispatchCompute(gridWidth, gridHeight, 1) with a 1 x 1 local size: one
\* invocation per cell, each storing to its own cell of image unit 1, all of
\* them complete at the barrier of line 152.
glDispatchCompute(img_input) == [c \in Cells |-> main(img_input, c)]

\* glCopyImageSubData from level 0 of src to level 0 of dst, origin (0,0),
\* over the whole gridWidth x gridHeight extent.
glCopyImageSubDataShort(src, dst) ==
    [c \in Cells |-> IF c[1] < gridWidth - 1 THEN src[c] ELSE dst[c]]

glCopyImageSubData(src, dst) == [c \in Cells |-> src[c]]

\* What image unit 1 holds after lines 146-152.  With a compute program that
\* did not build, glUseProgram and glDispatchCompute raise GL errors and run
\* nothing: the texture keeps what it held.
Dispatched(prog, img_input, img_output) ==
    IF prog = "linked" THEN glDispatchCompute(img_input) ELSE img_output

\* The whole call, lines 143-159.
simulationTick ==
    LET out == Dispatched(computeProgram, inputTexture, outputTexture)
    IN  /\ outputTexture' = out
        /\ inputTexture' = glCopyImageSubData(out, inputTexture)
        /\ outputWritten' = (outputWritten \/ computeProgram = "linked")
        /\ ticksThisFrame' = ticksThisFrame + 1

\* The same call followed statement by statement: lines 146-152 ...
TickDispatch ==
    /\ pc = "dispatch"
    /\ UNCHANGED gpu
    /\ outputTexture' = Dispatched(computeProgram, inputTexture, outputTexture)
    /\ outputWritten' = (outputWritten \/ computeProgram = "linked")
    /\ pc' = "copy"
    /\ UNCHANGED <<console, image, renderProgram, computeProgram, inputTexture,
                   simulationIsRunning, currentScale, currentXOffset,
                   currentYOffset, runningAtTop, ticksThisFrame,
                   stepsThisFrame>>

\* ... and lines 155-158.
TickCopy ==
    /\ pc = "copy"
    /\ UNCHANGED gpu
    /\ inputTexture' = glCopyImageSubData(outputTexture, inputTexture)
    /\ pc' = "dispatch"
    /\ UNCHANGED <<console, image, renderProgram, computeProgram, outputTexture,
                   outputWritten, simulationIsRunning, currentScale,
                   currentXOffset, currentYOffset, runningAtTop,
                   ticksThisFrame, stepsThisFrame>>

\* No dispatch is being followed invocation by invocation.
NothingInFlight ==
    /\ queued = {}
    /\ inFlight = {}
    /\ caller = "none"
    /\ swapTextures = NoTexture
    /\ swapCurrent = 0

(***************************************************************************)
(* Boards                                                                  *)
(***************************************************************************)

\* The cell c with the in-grid cells around it.
Window(c) ==
    {d \in Cells : abs(d[1] - c[1]) <= 1 /\ abs(d[2] - c[2]) <= 1}

\* glTexImage2D(..., NULL) leaves the texel contents undefined: any values.
\* Three boards stand for the rest: all 0.0, all 1.0, and all a value that
\* is neither.
Uninitialised == {GridOf({}), GridOf(Cells), [c \in Cells |-> One \div 2]}

\* simulationTick() applied, with the compute program built, to a board:
\* every board whose live cells lie within one cell's window, which gives
\* every cell of the grid every neighbour count it can have, alive and dead,
\* and then to every board the ticks lead to.
InitKernel ==
    /\ pc = "dispatch"
    /\ console = {}
    /\ image = Decoded("pixels", gridWidth, gridHeight, 3)
    /\ renderProgram = "linked"
    /\ computeProgram = "linked"
    /\ \E c \in Cells : \E S \in SUBSET Window(c) : inputTexture = GridOf(S)
    /\ outputTexture \in Uninitialised
    /\ outputWritten = FALSE
    /\ simulationIsRunning = TRUE
    /\ currentScale = 10
    /\ currentXOffset = 0
    /\ currentYOffset = 0
    /\ runningAtTop = FALSE
    /\ ticksThisFrame = 0
    /\ stepsThisFrame = 0
    /\ NothingInFlight

NextKernel == TickDispatch \/ TickCopy

SpecKernel == InitKernel /\ [][NextKernel]_vars

(***************************************************************************)
(* main(): start-up                                                        *)
(***************************************************************************)

\* Line 48.
startsPaused == FALSE

simulationIsRunningInitially == TRUE

\* Line 41, in steps of 0.1.
currentScaleInitially == 10

\* Lines 209-214.  glfwInit() fails: report and return -1.
GlfwInit ==
    /\ pc = "init"
    /\ UNCHANGED gpu
    /\ \E ok \in BOOLEAN :
          IF ok
          THEN pc' = "shaders" /\ console' = console
          ELSE pc' = "exit" /\ console' = console \cup {"Failed to initalize GLFW!"}
    /\ UNCHANGED <<image, renderProgram, computeProgram, inputTexture,
                   outputTexture, outputWritten, simulationIsRunning,
                   currentScale, currentXOffset, currentYOffset,
                   runningAtTop, ticksThisFrame, stepsThisFrame>>

\* What can become of one shader file: it compiles, or it cannot be read
\* (lines 90-94) or is rejected by the compiler (lines 108-113).
ShaderOutcomes == {"compiled", "failed"}

\* loadCompileShader(): the shader, or (GLuint)-1 after a message on cerr.
loadCompileShader(outcome) ==
    IF outcome = "compiled"
    THEN [shader |-> "shader", said |-> {}]
    ELSE [shader |-> "invalid", said |-> {"shader error"}]

\* createLinkProgram(): attaches, links, prints the log of a failed link and
\* returns the program whatever the link status.  The program can run only
\* if every shader given was a shader and the link succeeded.
createLinkProgram(shaders, linkOk) ==
    [program |-> IF linkOk /\ \A sh \in shaders : sh = "shader"
                 THEN "linked" ELSE "failed",
     said |-> IF linkOk THEN {} ELSE {"Shader link error"}]

\* Lines 228-242.  No result is tested: main() goes on to the image.
CompileShaders ==
    /\ pc = "shaders"
    /\ UNCHANGED gpu
    /\ \E vert, frag, comp \in ShaderOutcomes, linkRender, linkCompute \in BOOLEAN :
          LET quadVertexShader == loadCompileShader(vert)
              quadFragmentShader == loadCompileShader(frag)
              computeShader == loadCompileShader(comp)
              render == createLinkProgram(
                  {quadVertexShader.shader, quadFragmentShader.shader}, linkRender)
              compute == createLinkProgram({computeShader.shader}, linkCompute)
          IN  /\ renderProgram' = render.program
              /\ computeProgram' = compute.program
              /\ console' = console \cup quadVertexShader.said
                    \cup quadFragmentShader.said \cup computeShader.said
                    \cup render.said \cup compute.said
    /\ pc' = "image"
    /\ UNCHANGED <<image, inputTexture, outputTexture, outputWritten,
                   simulationIsRunning, currentScale, currentXOffset,
                   currentYOffset, runningAtTop, ticksThisFrame,
                   stepsThisFrame>>

\* The boards the image file may hold, rows top-down as the file stores
\* them: empty, a lone corner cell, a block, a row of three, an L of three.
InitialSetups ==
    {GridOf(S) : S \in {{},
                        {<<gridWidth - 1, 0>>},
                        {<<1, 1>>, <<2, 1>>, <<1, 2>>, <<2, 2>>},
                        {<<0, 1>>, <<1, 1>>, <<2, 1>>},
                        {<<0, 0>>, <<1, 0>>, <<0, 1>>}}}

\* stbi_set_flip_vertically_on_load(true): the first row of data is the last
\* row of the file.
stbi_load(pixels) ==
    [c \in Cells |-> pixels[<<c[1], gridHeight - 1 - c[2]>>]]

\* glTexImage2D(GL_RGBA32F, ..., GL_RGB, GL_UNSIGNED_BYTE, data): row y of
\* data is row y of the texture, each byte b becomes the float b / 255.
glTexImage2D(data) == [c \in Cells |-> data[c]]

\* Line 275.
WrongDimensionsNoChannels(img) ==
    img.imgWidth # gridWidth \/ img.imgHeight # gridHeight

WrongDimensions(img) ==
    img.imgWidth # gridWidth \/ img.imgHeight # gridHeight \/ img.numChannels # 3

\* Lines 265-326: load the image, test it, create both textures, install
\* key_callback.
LoadInitialSetup ==
    /\ pc = "image"
    /\ UNCHANGED gpu
    /\ \E missing \in BOOLEAN, pixels \in InitialSetups,
          imgWidth \in {gridWidth, gridWidth + 1},
          imgHeight \in {gridHeight - 1, gridHeight},
          numChannels \in {3, 4} :
          LET img == IF missing THEN Decoded("NULL", 0, 0, 0)
                     ELSE Decoded("pixels", imgWidth, imgHeight, numChannels)
          IN  /\ image' = img
              /\ IF img.data = "NULL"
                 THEN /\ console' = console \cup {"Could not read the inital setup!"}
                      /\ pc' = "exit"
                      /\ UNCHANGED <<inputTexture, outputTexture>>
                 ELSE IF WrongDimensions(img)
                 THEN /\ console' = console
                            \cup {"Inital setup image has the wrong dimensions!"}
                      /\ pc' = "exit"
                      /\ UNCHANGED <<inputTexture, outputTexture>>
                 ELSE /\ console' = console
                      /\ pc' = "loop"
                      /\ inputTexture' = glTexImage2D(stbi_load(pixels))
                      /\ outputTexture' \in Uninitialised
    /\ UNCHANGED <<renderProgram, computeProgram, outputWritten,
                   simulationIsRunning, currentScale, currentXOffset,
                   currentYOffset, runningAtTop, ticksThisFrame,
                   stepsThisFrame>>

(***************************************************************************)
(* main(): the frame loop, and key_callback()                              *)
(***************************************************************************)

\* Lines 328-330: the window stays open; tick if running.
LoopTop ==
    /\ pc = "loop"
    /\ UNCHANGED gpu
    /\ runningAtTop' = simulationIsRunning
    /\ IF simulationIsRunning
       THEN simulationTick
       ELSE UNCHANGED <<inputTexture, outputTexture, outputWritten,
                        ticksThisFrame>>
    /\ pc' = "render"
    /\ UNCHANGED <<console, image, renderProgram, computeProgram,
                   simulationIsRunning, currentScale, currentXOffset,
                   currentYOffset, stepsThisFrame>>

\* Lines 328, 364-366: glfwWindowShouldClose() is true; clean up and return.
LoopExit ==
    /\ pc = "loop"
    /\ UNCHANGED gpu
    /\ pc' = "exit"
    /\ UNCHANGED <<console, image, renderProgram, computeProgram,
                   inputTexture, outputTexture, outputWritten,
                   simulationIsRunning, currentScale, currentXOffset,
                   currentYOffset, runningAtTop, ticksThisFrame,
                   stepsThisFrame>>

\* Lines 332-360: draw the quad, sampling outputTexture through the viewport
\* uniforms; swap buffers.
Render ==
    /\ pc = "render"
    /\ UNCHANGED gpu
    /\ pc' = "poll"
    /\ UNCHANGED <<console, image, renderProgram, computeProgram,
                   inputTexture, outputTexture, outputWritten,
                   simulationIsRunning, currentScale, currentXOffset,
                   currentYOffset, runningAtTop, ticksThisFrame,
                   stepsThisFrame>>

Keys == {"W", "S", "A", "D", "SPACE", "EQUAL", "MINUS", "T", "OTHER"}

KeyActions == {"PRESS", "REPEAT", "RELEASE"}

\* Line 164: key-up events are dropped.
FiresOnAny(action) == TRUE

Fires(action) == action = "PRESS" \/ action = "REPEAT"

\* Lines 201-203.
ScaleFloorStrict(scale) == IF scale < 0 THEN 1 ELSE scale

ScaleFloor(scale) == IF scale <= 0 THEN 1 ELSE scale

\* key_callback(), called by glfwPollEvents() (line 361) once per event.
key_callback(key, action) ==
    /\ pc = "poll"
    /\ UNCHANGED gpu
    /\ key = "W" => currentYOffset < MaxPan
    /\ key = "S" => currentYOffset > -MaxPan
    /\ key = "A" => currentXOffset > -MaxPan
    /\ key = "D" => currentXOffset < MaxPan
    /\ key = "EQUAL" => currentScale < MaxScale
    /\ key = "T" => stepsThisFrame < MaxSteps
    /\ stepsThisFrame' =
          IF key = "T" /\ action \in {"PRESS", "REPEAT"}
          THEN stepsThisFrame + 1 ELSE stepsThisFrame
    /\ IF ~Fires(action)
       THEN UNCHANGED <<currentYOffset, currentXOffset, simulationIsRunning,
                        currentScale, inputTexture, outputTexture,
                        outputWritten, ticksThisFrame>>
       ELSE /\ currentYOffset' =
                 CASE key = "W" -> currentYOffset + 1
                   [] key = "S" -> currentYOffset - 1
                   [] OTHER -> currentYOffset
            /\ currentXOffset' =
                 CASE key = "A" -> currentXOffset - 1
                   [] key = "D" -> currentXOffset + 1
                   [] OTHER -> currentXOffset
            /\ simulationIsRunning' =
                 IF key = "SPACE" THEN ~simulationIsRunning
                 ELSE simulationIsRunning
            /\ currentScale' =
                 ScaleFloor(CASE key = "EQUAL" -> currentScale + 1
                              [] key = "MINUS" -> currentScale - 1
                              [] OTHER -> currentScale)
            /\ IF key = "T"
               THEN simulationTick
               ELSE UNCHANGED <<inputTexture, outputTexture, outputWritten,
                                ticksThisFrame>>
    /\ UNCHANGED <<pc, console, image, renderProgram, computeProgram,
                   runningAtTop>>

KeyEvent == \E key \in Keys, action \in KeyActions : key_callback(key, action)

\* glfwPollEvents() returns; the frame is over.
PollEventsReturn ==
    /\ pc = "poll"
    /\ UNCHANGED gpu
    /\ pc' = "loop"
    /\ runningAtTop' = FALSE
    /\ ticksThisFrame' = 0
    /\ stepsThisFrame' = 0
    /\ UNCHANGED <<console, image, renderProgram, computeProgram,
                   inputTexture, outputTexture, outputWritten,
                   simulationIsRunning, currentScale, currentXOffset,
                   currentYOffset>>

(***************************************************************************)
(* Specifications                                                          *)
(***************************************************************************)

\* The process from its first statement.
Init ==
    /\ pc = "init"
    /\ console = {}
    /\ image = NotLoaded
    /\ renderProgram = "none"
    /\ computeProgram = "none"
    /\ inputTexture = NoTexture
    /\ outputTexture = NoTexture
    /\ outputWritten = FALSE
    /\ simulationIsRunning = simulationIsRunningInitially
    /\ currentScale = currentScaleInitially
    /\ currentXOffset = 0
    /\ currentYOffset = 0
    /\ runningAtTop = FALSE
    /\ ticksThisFrame = 0
    /\ stepsThisFrame = 0
    /\ NothingInFlight

Frame == LoopTop \/ LoopExit \/ Render \/ KeyEvent \/ PollEventsReturn

Next == GlfwInit \/ CompileShaders \/ LoadInitialSetup \/ Frame

Spec == Init /\ [][Next]_vars

\* The process as it enters the frame loop (line 328) when every step of the
\* start-up succeeded: both programs linked, the image loaded and accepted.
InitBuilt ==
    /\ pc = "loop"
    /\ console = {}
    /\ image = Decoded("pixels", gridWidth, gridHeight, 3)
    /\ renderProgram = "linked"
    /\ computeProgram = "linked"
    /\ \E pixels \in InitialSetups : inputTexture = glTexImage2D(stbi_load(pixels))
    /\ outputTexture \in Uninitialised
    /\ outputWritten = FALSE
    /\ simulationIsRunning = simulationIsRunningInitially
    /\ currentScale = currentScaleInitially
    /\ currentXOffset = 0
    /\ currentYOffset = 0
    /\ runningAtTop = FALSE
    /\ ticksThisFrame = 0
    /\ stepsThisFrame = 0
    /\ NothingInFlight

SpecBuilt == InitBuilt /\ [][Frame]_vars

(***************************************************************************)
(* simulationTick() followed invocation by invocation                      *)
(***************************************************************************)

\* The GPU has Units execution units.  Each runs one invocation at a time
\* and the units run at any speed relative to one another.
Units == 2

\* glDispatchCompute(gridWidth, gridHeight, 1) with local size 1 x 1 starts
\* one invocation per cell (line 149, shader line 4).
InvocationsShort == {c \in Cells : c[1] < gridWidth - 1}

Invocations == Cells

\* The texture the shader's binding 0 reads: image unit 0 holds inputTexture
\* (line 307, shader line 5).
ImageUnit0Output(input, output) == output

ImageUnit0(input, output) == input

\* An invocation runs to its store for every cell: main() has no loop and no
\* branch, and a load outside the image returns zero instead of faulting.
TerminatesInside(c) == c[1] \in 1 .. gridWidth - 2 /\ c[2] \in 1 .. gridHeight - 2

Terminates(c) == TRUE

\* glMemoryBarrier (line 152) lets the commands after it run once the
\* dispatch has completed: no invocation is left to start or to finish.
BarrierPassedEarly(waiting, running) == waiting = {}

BarrierPassed(waiting, running) == waiting = {} /\ running = {}

\* The invocations of a dispatch are numbered row by row and dealt to the
\* units in turn; a unit runs the ones it was dealt in that order.
Index(c) == c[2] * gridWidth + c[1]

Unit(c) == Index(c) % Units

\* The units that have an invocation of their own in S, and the one that
\* such a unit runs next.
UnitsWithWork(S) == {u \in 0 .. Units - 1 : \E c \in S : Unit(c) = u}

NextOf(S, u) ==
    CHOOSE c \in S : Unit(c) = u /\ \A d \in S : Unit(d) = u => Index(c) <= Index(d)

\* Lines 146-149: glUseProgram and glDispatchCompute hand the invocations to
\* the GPU and return.  Each unit takes its first; the rest are queued.
DispatchCompute ==
    /\ pc = "dispatch"
    /\ LET launched == IF computeProgram = "linked" THEN Invocations ELSE {}
           heads == {NextOf(launched, u) : u \in UnitsWithWork(launched)}
       IN  /\ inFlight' = heads
           /\ queued' = launched \ heads
    /\ pc' = "barrier"
    /\ UNCHANGED <<console, image, renderProgram, computeProgram, inputTexture,
                   outputTexture, outputWritten, simulationIsRunning,
                   currentScale, currentXOffset, currentYOffset, runningAtTop,
                   ticksThisFrame, stepsThisFrame, caller, swapTextures,
                   swapCurrent>>

\* The invocation for cell c runs main() and stores its pixel (shader lines
\* 8-34), and its unit takes its next queued invocation.  The role-swapping
\* variant runs the same invocation on its own buffers.
Finish(c) ==
    /\ c \in inFlight
    /\ Terminates(c)
    /\ outputTexture' =
          [outputTexture EXCEPT
              ![c] = main(ImageUnit0(inputTexture, outputTexture), c)]
    /\ swapTextures' =
          [swapTextures EXCEPT
              ![1 - swapCurrent][c] = main(swapTextures[swapCurrent], c)]
    /\ outputWritten' = TRUE
    /\ IF Unit(c) \in UnitsWithWork(queued)
       THEN /\ inFlight' = (inFlight \ {c}) \cup {NextOf(queued, Unit(c))}
            /\ queued' = queued \ {NextOf(queued, Unit(c))}
       ELSE /\ inFlight' = inFlight \ {c}
            /\ queued' = queued
    /\ UNCHANGED <<pc, console, image, renderProgram, computeProgram,
                   inputTexture, simulationIsRunning, currentScale,
                   currentXOffset, currentYOffset, runningAtTop,
                   ticksThisFrame, stepsThisFrame, caller, swapCurrent>>

\* Line 152.
MemoryBarrier ==
    /\ pc = "barrier"
    /\ BarrierPassed(queued, inFlight)
    /\ pc' = "copy"
    /\ UNCHANGED <<console, image, renderProgram, computeProgram, inputTexture,
                   outputTexture, outputWritten, simulationIsRunning,
                   currentScale, currentXOffset, currentYOffset, runningAtTop,
                   ticksThisFrame, stepsThisFrame, queued, inFlight, caller,
                   swapTextures, swapCurrent>>

\* Lines 155-159: the copy, the second barrier and the return.  The
\* role-swapping variant exchanges the roles of its two buffers here.
CopyBack ==
    /\ pc = "copy"
    /\ inputTexture' = glCopyImageSubData(outputTexture, inputTexture)
    /\ swapCurrent' = 1 - swapCurrent
    /\ pc' = caller
    /\ UNCHANGED <<console, image, renderProgram, computeProgram, outputTexture,
                   outputWritten, simulationIsRunning, currentScale,
                   currentXOffset, currentYOffset, runningAtTop,
                   ticksThisFrame, stepsThisFrame, queued, inFlight, caller,
                   swapTextures>>

\* Lines 328-330, with the call of simulationTick() entered and not yet run.
LoopTopCall ==
    /\ pc = "loop"
    /\ runningAtTop' = simulationIsRunning
    /\ IF simulationIsRunning
       THEN /\ pc' = "dispatch"
            /\ caller' = "render"
            /\ ticksThisFrame' = ticksThisFrame + 1
       ELSE /\ pc' = "render"
            /\ UNCHANGED <<caller, ticksThisFrame>>
    /\ UNCHANGED <<console, image, renderProgram, computeProgram, inputTexture,
                   outputTexture, outputWritten, simulationIsRunning,
                   currentScale, currentXOffset, currentYOffset,
                   stepsThisFrame, queued, inFlight, swapTextures,
                   swapCurrent>>

\* key_callback() for a press or repeat of T (lines 164, 196-203), with the
\* call of simulationTick() entered and not yet run.  The scale test of line
\* 201 does not depend on the tick and is taken here.
KeyStepCall(action) ==
    /\ pc = "poll"
    /\ Fires(action)
    /\ stepsThisFrame < MaxSteps
    /\ stepsThisFrame' = stepsThisFrame + 1
    /\ currentScale' = ScaleFloor(currentScale)
    /\ pc' = "dispatch"
    /\ caller' = "poll"
    /\ ticksThisFrame' = ticksThisFrame + 1
    /\ UNCHANGED <<console, image, renderProgram, computeProgram, inputTexture,
                   outputTexture, outputWritten, simulationIsRunning,
                   currentXOffset, currentYOffset, runningAtTop, queued,
                   inFlight, swapTextures, swapCurrent>>

\* The events delivered while a tick is followed invocation by invocation:
\* the two keys that decide when a tick runs.
KeyEventCall ==
    \E action \in KeyActions :
        \/ key_callback("SPACE", action)
        \/ IF Fires(action) THEN KeyStepCall(action)
                            ELSE key_callback("T", action)

\* The process as it enters the frame loop after a successful start-up, with
\* the role-swapping variant given the same two textures.
InitDispatch ==
    /\ pc = "loop"
    /\ console = {}
    /\ image = Decoded("pixels", gridWidth, gridHeight, 3)
    /\ renderProgram = "linked"
    /\ computeProgram = "linked"
    /\ \E pixels \in InitialSetups : inputTexture = glTexImage2D(stbi_load(pixels))
    /\ outputTexture \in Uninitialised
    /\ outputWritten = FALSE
    /\ simulationIsRunning = simulationIsRunningInitially
    /\ currentScale = currentScaleInitially
    /\ currentXOffset = 0
    /\ currentYOffset = 0
    /\ runningAtTop = FALSE
    /\ ticksThisFrame = 0
    /\ stepsThisFrame = 0
    /\ queued = {}
    /\ inFlight = {}
    /\ caller = "none"
    /\ swapTextures = [b \in {0, 1} |-> IF b = 0 THEN inputTexture ELSE outputTexture]
    /\ swapCurrent = 0

Tick ==
    \/ DispatchCompute
    \/ \E c \in Cells : Finish(c)
    \/ MemoryBarrier
    \/ CopyBack

NextDispatch ==
    LoopTopCall \/ LoopExit \/ Render \/ KeyEventCall \/ PollEventsReturn \/ Tick

SpecDispatch == InitDispatch /\ [][NextDispatch]_vars

\* simulationTick() called again and again, as by a running frame loop,
\* each call followed invocation by invocation.
InitTick ==
    /\ pc = "dispatch"
    /\ console = {}
    /\ image = Decoded("pixels", gridWidth, gridHeight, 3)
    /\ renderProgram = "linked"
    /\ computeProgram = "linked"
    /\ \E pixels \in InitialSetups : inputTexture = glTexImage2D(stbi_load(pixels))
    /\ outputTexture \in Uninitialised
    /\ outputWritten = FALSE
    /\ simulationIsRunning = simulationIsRunningInitially
    /\ currentScale = currentScaleInitially
    /\ currentXOffset = 0
    /\ currentYOffset = 0
    /\ runningAtTop = FALSE
    /\ ticksThisFrame = 0
    /\ stepsThisFrame = 0
    /\ queued = {}
    /\ inFlight = {}
    /\ caller = "dispatch"
    /\ swapTextures = [b \in {0, 1} |-> IF b = 0 THEN inputTexture ELSE outputTexture]
    /\ swapCurrent = 0

\* The GPU and the driver make progress: while some step of a tick can be
\* taken, one is taken.  No order among the invocations is assumed.
SpecTickFair == InitTick /\ [][Tick]_vars /\ WF_vars(Tick)

(***************************************************************************)
(* The rule of the game, stated apart from the shader: the vocabulary of    *)
(* the claims below                                                        *)
(***************************************************************************)

\* The cells of the grid next to c; a position off the grid is no cell.
Neighbours(c) == Window(c) \ {c}

LiveNeighbours(img, c) == Cardinality({d \in Neighbours(c) : img[d] = One})

\* The successor generation: a cell is alive with three live neighbours, or
\* with two if it is alive now; off-grid neighbours are dead.
LifeSuccessor(img) ==
    [c \in Cells |->
        IF LiveNeighbours(img, c) = 3
           \/ (img[c] = One /\ LiveNeighbours(img, c) = 2)
        THEN One ELSE 0]

Border == {c \in Cells : c[1] \in {0, gridWidth - 1} \/ c[2] \in {0, gridHeight - 1}}

Corners == {c \in Cells : c[1] \in {0, gridWidth - 1} /\ c[2] \in {0, gridHeight - 1}}

\* The eight positions the shader loads around c, on the grid or off it.
Around(c) ==
    {<<c[1] + dx, c[2] + dy>> : dx \in {-1, 0, 1}, dy \in {-1, 0, 1}} \ {c}

\* The 2 x 2 block whose lowest cell is c.
Block(c) == {c, <<c[1] + 1, c[2]>>, <<c[1], c[2] + 1>>, <<c[1] + 1, c[2] + 1>>}

IsBlock(img) == \E c \in Cells : Block(c) \subseteq Cells /\ Live(img) = Block(c)

(***************************************************************************)
(* Claims on the running program (SpecBuilt, Spec)                         *)
(***************************************************************************)

\* A step of simulationTick(): the one thing that counts a tick.
Ticked == ticksThisFrame' = ticksThisFrame + 1

\* C6: at every render outputTexture, the texture drawn, has been written by
\* a dispatch and equals inputTexture cell for cell; and the two textures
\* change only in a tick, which leaves both holding the successor of
\* inputTexture - so what is drawn is the result of the latest tick, never
\* the blank texture and never a generation behind or ahead.
C6_RenderShowsCurrentGeneration ==
    /\ [](pc = "render" => (outputWritten /\ outputTexture = inputTexture))
    /\ [][(outputTexture' # outputTexture \/ inputTexture' # inputTexture)
            => (/\ Ticked
                /\ outputTexture' = LifeSuccessor(inputTexture)
                /\ inputTexture' = outputTexture')]_vars

\* A paused frame is about to draw: no tick ran in it, a single step ran in
\* the frame before, and outputTexture holds the board that step produced.
C6_Witness ==
    /\ pc = "render"
    /\ ~runningAtTop
    /\ ticksThisFrame = 0
    /\ outputWritten
    /\ outputTexture = inputTexture
    /\ Live(outputTexture) = {<<1, gridHeight - 3>>, <<1, gridHeight - 2>>,
                              <<1, gridHeight - 1>>}

\* C7 as stated: a frame that found the simulation running executes exactly
\* one tick, a frame that found it paused executes one tick per T event and
\* no other.
C7_OneTickPerRunningFrame ==
    pc \in {"render", "poll"} =>
        ticksThisFrame = IF runningAtTop THEN 1 ELSE stepsThisFrame

\* C7 amended: a frame executes one tick at its top if it found the
\* simulation running, and one more tick for every T press or repeat event
\* delivered in it, running or paused; it executes no other tick.
C7_TicksPerFrame ==
    /\ pc \in {"render", "poll"} =>
          ticksThisFrame = (IF runningAtTop THEN 1 ELSE 0) + stepsThisFrame
    /\ pc \notin {"render", "poll"} => ticksThisFrame = 0

\* A frame that ticked at its top has ticked again for a T event.
C7_Witness ==
    /\ pc = "poll"
    /\ runningAtTop
    /\ simulationIsRunning
    /\ stepsThisFrame = 1
    /\ ticksThisFrame = 2

\* C8: when the initial-state image is missing, or is not gridWidth x
\* gridHeight x 3, the process has reported it and exited: no texture was
\* created and no tick has run.
C8_BadImageExits ==
    (/\ image # NotLoaded
     /\ \/ image.data = "NULL"
        \/ image.imgWidth # gridWidth
        \/ image.imgHeight # gridHeight
        \/ image.numChannels # 3)
    => /\ pc = "exit"
       /\ inputTexture = NoTexture
       /\ outputTexture = NoTexture
       /\ ticksThisFrame = 0
       /\ console \cap {"Could not read the inital setup!",
                        "Inital setup image has the wrong dimensions!"} # {}

\* The process has exited on an image of the right size with four channels.
C8_Witness ==
    /\ pc = "exit"
    /\ image = Decoded("pixels", gridWidth, gridHeight, 4)
    /\ "Inital setup image has the wrong dimensions!" \in console
    /\ inputTexture = NoTexture

\* C9 as stated: the process aborts when the compute program fails to
\* build, so that simulationTick() is never called with such a program.
C9_NoTickWithFailedProgram ==
    computeProgram = "failed" => ticksThisFrame = 0

(***************************************************************************)
(* Claims on the kernel and on one tick (SpecKernel)                       *)
(***************************************************************************)

\* C1: one call of simulationTick() - dispatch, barrier, copy-back - leaves
\* inputTexture equal, cell for cell, to the Game-of-Life successor of the
\* inputTexture the call began with: one generation, not zero and not two.
C1_TickIsOneGeneration ==
    [][pc = "copy" => inputTexture' = LifeSuccessor(inputTexture)]_vars

\* A tick has run and turned the horizontal blinker into the vertical one:
\* zero generations or two would have left it horizontal.
C1_Witness ==
    /\ pc = "dispatch"
    /\ outputWritten
    /\ Live(inputTexture) = {<<1, 0>>, <<1, 1>>, <<1, 2>>}

\* C2: a cell with exactly three live neighbours is written alive, whether
\* it is alive or dead now.
C2_ThreeNeighboursAlive ==
    pc = "copy" =>
        \A c \in Cells :
            LiveNeighbours(inputTexture, c) = 3 => outputTexture[c] = One

\* A dispatch wrote alive to a dead cell and to a live cell, each with three
\* live neighbours.
C2_Witness ==
    /\ pc = "copy"
    /\ \E c, d \in Cells :
          /\ LiveNeighbours(inputTexture, c) = 3 /\ inputTexture[c] = 0
          /\ LiveNeighbours(inputTexture, d) = 3 /\ inputTexture[d] = One
          /\ outputTexture[c] = One /\ outputTexture[d] = One

\* C3: a cell with exactly two live neighbours is written its own current
\* state.
C3_TwoNeighboursUnchanged ==
    pc = "copy" =>
        \A c \in Cells :
            LiveNeighbours(inputTexture, c) = 2 =>
                outputTexture[c] = inputTexture[c]

\* A dispatch kept a live cell alive and a dead cell dead, each with two
\* live neighbours.
C3_Witness ==
    /\ pc = "copy"
    /\ \E c, d \in Cells :
          /\ LiveNeighbours(inputTexture, c) = 2 /\ inputTexture[c] = One
          /\ LiveNeighbours(inputTexture, d) = 2 /\ inputTexture[d] = 0
          /\ outputTexture[c] = One /\ outputTexture[d] = 0

\* C4: a cell with 0, 1, 4, 5, 6, 7 or 8 live neighbours is written dead,
\* whatever its current state.
C4_OtherCountsDead ==
    pc = "copy" =>
        \A c \in Cells :
            LiveNeighbours(inputTexture, c) \in {0, 1, 4, 5, 6, 7, 8} =>
                outputTexture[c] = 0

\* A dispatch wrote dead to a live cell with eight live neighbours and to a
\* live cell with five.
C4_Witness ==
    /\ pc = "copy"
    /\ \E c, d \in Cells :
          /\ LiveNeighbours(inputTexture, c) = 8 /\ inputTexture[c] = One
          /\ LiveNeighbours(inputTexture, d) = 5 /\ inputTexture[d] = One
          /\ outputTexture[c] = 0 /\ outputTexture[d] = 0

\* C5: for a cell on the border of the grid every load off the grid gives 0,
\* so the shader's count is the count of its live in-grid neighbours (no
\* wrap to the opposite edge, no border colour), and a live corner cell
\* with no live neighbour is written dead.
C5_OffGridIsDead ==
    pc = "copy" =>
        \A c \in Border :
            /\ \A p \in Around(c) \ Cells :
                   imageLoad(inputTexture, p[1], p[2]) = 0
            /\ numNeighbours(inputTexture, c[1], c[2])
                   = LiveNeighbours(inputTexture, c)
            /\ (c \in Corners /\ inputTexture[c] = One
                   /\ LiveNeighbours(inputTexture, c) = 0)
                => outputTexture[c] = 0

\* A dispatch wrote dead to a live corner cell that stood alone while a cell
\* of the opposite edge, where a wrapped load would land, was alive.
C5_Witness ==
    /\ pc = "copy"
    /\ \E c \in Corners :
          /\ inputTexture[c] = One
          /\ LiveNeighbours(inputTexture, c) = 0
          /\ \E dx \in -1 .. 1, dy \in -1 .. 1 :
                LET w == <<(c[1] + dx) % gridWidth, (c[2] + dy) % gridHeight>>
                IN  w \notin Window(c) /\ inputTexture[w] = One
          /\ outputTexture[c] = 0

\* C10: a board whose only live cells form a 2 x 2 block, anywhere on the
\* grid, is the same board after a tick.
C10_BlockIsFixed ==
    [][(pc = "copy" /\ IsBlock(inputTexture))
          => inputTexture' = inputTexture]_vars

\* A tick has run on the block in the corner of the grid and left it there.
C10_Witness ==
    /\ pc = "dispatch"
    /\ outputWritten
    /\ Live(inputTexture) = Block(<<gridWidth - 2, gridHeight - 2>>)
    /\ outputTexture = inputTexture

\* The row of three and the column of three through the centre c.
Row(c) == {<<c[1] - 1, c[2]>>, c, <<c[1] + 1, c[2]>>}

Column(c) == {<<c[1], c[2] - 1>>, c, <<c[1], c[2] + 1>>}

\* The centres of the rows that have a cell of margin on every side.
RowCentres ==
    {c \in Cells : c[1] \in 2 .. gridWidth - 3 /\ c[2] \in 1 .. gridHeight - 2}

\* C11: on a board whose only live cells are a horizontal row of three with
\* a dead cell of margin around it, a tick leaves exactly the vertical column
\* of three through the same centre, and a tick on that column leaves
\* exactly the row again: period two, and not one.
C11_BlinkerHasPeriodTwo ==
    [][pc = "copy" =>
          \A c \in RowCentres :
              /\ Live(inputTexture) = Row(c) =>
                    (Live(inputTexture') = Column(c) /\ inputTexture' # inputTexture)
              /\ Live(inputTexture) = Column(c) =>
                    Live(inputTexture') = Row(c)]_vars

\* A tick has left the row with its margin on the board: the tick from the
\* column.
C11_Witness ==
    /\ pc = "dispatch"
    /\ outputWritten
    /\ \E c \in RowCentres : Live(inputTexture) = Row(c)
    /\ outputTexture = inputTexture

\* C12: the variant that exchanges the roles of its two buffers after the
\* barrier, run on the same invocations as the program, holds in its
\* current-role buffer exactly what the program's copy leaves in
\* inputTexture: before the first tick, during every tick and after it.
C12_CopyAgreesWithSwap == inputTexture = swapTextures[swapCurrent]

\* Two ticks have completed, the variant's roles are back where they began,
\* and its other buffer holds the generation before, which the program's
\* outputTexture does not.
C12_Witness ==
    /\ pc = "render"
    /\ outputWritten
    /\ swapCurrent = 0
    /\ inputTexture = swapTextures[0]
    /\ swapTextures[1] # swapTextures[0]
    /\ outputTexture = inputTexture

\* C13: the viewport scale is above zero in every state, so whenever
\* key_callback() has returned and whenever the display shader divides by
\* it: a zoom-out from 0.1 leaves it at 0.1.
C13_ScaleStaysPositive == currentScale > 0

\* Zoom-outs have brought the scale to 0.1, the value the floor restores.
C13_Witness ==
    /\ pc = "poll"
    /\ currentScale = 1
    /\ inputTexture # NoTexture

\* The invocations of the dispatch in flight that have stored their pixel.
Stored == Invocations \ (queued \cup inFlight)

\* C14: while a dispatch is in flight inputTexture does not change, and the
\* step in which the invocation for a cell c finishes changes outputTexture
\* at c only and stores there the successor of c computed from inputTexture
\* alone, whatever the other invocations have stored so far.
C14_InvocationsAreIsolated ==
    [][/\ pc = "barrier" => inputTexture' = inputTexture
       /\ \A c \in Cells :
             (c \in inFlight /\ c \notin inFlight') =>
                 /\ inputTexture' = inputTexture
                 /\ \A d \in Cells \ {c} : outputTexture'[d] = outputTexture[d]
                 /\ outputTexture'[c] = LifeSuccessor(inputTexture)[c]]_vars

\* An invocation is running beside a neighbour that has already stored a
\* state different from the one inputTexture holds for it.
C14_Witness ==
    /\ pc = "barrier"
    /\ \E c \in inFlight :
          \E d \in Neighbours(c) \cap Stored : outputTexture[d] # inputTexture[d]

C17_ResultIgnoresSchedule ==
    /\ pc = "barrier" =>
          \A c \in Stored : outputTexture[c] = glDispatchCompute(inputTexture)[c]
    /\ pc = "copy" => outputTexture = glDispatchCompute(inputTexture)

\* Out of order: an invocation started later has stored a changed cell while
\* one started before it is still running.
C17_Witness ==
    /\ pc = "barrier"
    /\ \E c \in inFlight :
          \E d \in Stored :
              /\ Index(d) > Index(c)
              /\ outputTexture[d] # inputTexture[d]

\* C18: when the GPU keeps running what it can run, a tick that has been
\* entered reaches the copy with every cell of the grid stored - the corner
\* and edge cells, whose neighbour loads fall outside the image, among them -
\* and the copy is then performed: the call returns with inputTexture equal
\* to outputTexture and nothing queued or running.
C18_TickCompletes ==
    /\ (pc = "dispatch") ~> (pc = "copy" /\ Stored = Cells)
    /\ (pc = "copy") ~>
          (pc = caller /\ inputTexture = outputTexture /\ Stored = Cells)

\* A tick has returned with the whole grid processed, on a board whose
\* corner cell has just died with its neighbour loads off the grid.
C18_Witness ==
    /\ pc = caller
    /\ outputWritten
    /\ Stored = Cells
    /\ inputTexture = outputTexture
    /\ swapCurrent = 1
    /\ swapTextures[0][<<gridWidth - 1, gridHeight - 1>>] = One
    /\ inputTexture[<<gridWidth - 1, gridHeight - 1>>] = 0

\* The two states of a cell.
Binary == {0, One}

\* C19: for a cell that is 0 or 1 and every count n in 0..8 the two terms of
\* line 30 are never both non-zero and the pixel is 0 or 1; and from a board
\* of cells that are 0 or 1, in every state, every cell of inputTexture is 0
\* or 1, so is every cell of outputTexture once a dispatch has stored it,
\* and every neighbour count is in 0..8.
C19_CellsStayBinary ==
    /\ \A n \in 0 .. 8 :
          /\ ~(pixel(0, n) # 0 /\ pixel(One, n) - pixel(0, n) # 0)
          /\ \A oldState \in Binary : pixel(oldState, n) \in Binary
    /\ \A c \in Cells :
          /\ inputTexture[c] \in Binary
          /\ outputWritten => outputTexture[c] \in Binary
          /\ numNeighbours(inputTexture, c[1], c[2]) \in 0 .. 8

\* A tick has written both buffers, and the board it left has a live cell
\* with three live neighbours, where the first term is 1 and the cell is
\* alive besides, and a dead cell with two, where only the second term
\* could be non-zero.
C19_Witness ==
    /\ pc = "dispatch"
    /\ outputWritten
    /\ outputTexture = inputTexture
    /\ \E c \in Cells :
          numNeighbours(inputTexture, c[1], c[2]) = 3 /\ inputTexture[c] = One
    /\ \E c \in Cells :
          numNeighbours(inputTexture, c[1], c[2]) = 2 /\ inputTexture[c] = 0

\* The keys that move the viewport or pause and resume.
ViewKeys == {"W", "S", "A", "D", "EQUAL", "MINUS", "SPACE"}

BuffersChange ==
    inputTexture' # inputTexture \/ outputTexture' # outputTexture

\* C20: no event of a pan, zoom or pause key and no release of any key can
\* change inputTexture or outputTexture, and no release can change anything
\* at all; the textures change only in a call of simulationTick(), made by
\* a frame that found the simulation running or by a press or repeat of T,
\* so a paused frame without such an event leaves both as they were.
C20_OnlyTicksChangeTheGrid ==
    /\ [](pc = "poll" =>
             /\ \A key \in ViewKeys : \A action \in KeyActions :
                   ~ENABLED (key_callback(key, action) /\ BuffersChange)
             /\ \A key \in Keys :
                   ~ENABLED (key_callback(key, "RELEASE") /\ vars' # vars))
    /\ [][BuffersChange =>
             /\ Ticked
             /\ \/ pc = "loop" /\ simulationIsRunning
                \/ pc = "poll" /\ stepsThisFrame' = stepsThisFrame + 1]_vars

\* A paused frame is polling for events with no single step delivered, the
\* viewport zoomed out and panned, on a board an earlier tick left.
C20_Witness ==
    /\ pc = "poll"
    /\ ~simulationIsRunning
    /\ ~runningAtTop
    /\ ticksThisFrame = 0
    /\ stepsThisFrame = 0
    /\ currentScale < currentScaleInitially
    /\ currentXOffset # 0
    /\ outputWritten
    /\ Live(inputTexture) # {}

====
